---- MODULE Spec2Model ----
(***************************************************************************)
(* The uwsgi reverse-proxy transport of caddy-uwsgi-transport              *)
(* (src/uwsgi.go): the variable block encoder generateBlockVars, the       *)
(* frame header and the connection relay Transport.RoundTrip.              *)
(*                                                                         *)
(* Byte strings.  A Go string or []byte is a sequence whose elements are   *)
(* bytes 0..255; an element -n (n > 0) stands for n consecutive bytes 'x', *)
(* so that strings longer than 65535 bytes can be written down.  Only      *)
(* header values and static parameter values carry such runs.              *)
(***************************************************************************)
EXTENDS Integers, Sequences, FiniteSets, TLC

VARIABLES
    req,        \* the *http.Request handed to RoundTrip
    params,     \* Transport.UWSGIParams
    pc,         \* position of the RoundTrip call
    conn,       \* "nil" | "open" | "closed": the net.Conn of this call
    dialed,     \* the (network, address) pairs passed to net.Dial, in order
    entries,    \* the (name, value) pairs written to packetBody, in order
    blockVars,  \* the bytes of the buffer generateBlockVars returned
    sent,       \* the bytes handed to conn.Write / io.Copy(conn, ..), in order
    wire,       \* the bytes the connection accepted, in order
    bodyPos,    \* number of bytes read from req.Body so far
    bodyClosed, \* number of req.Body.Close() calls
    ioErr,      \* a write to conn or a read of req.Body has failed
    respRead,   \* number of response bytes read from conn
    ret,        \* "none" | "resp" | "err" | "panic": how RoundTrip returned
    respBody,   \* "none" | "open" | "consumed" | "closed": the Body of the
                \* response RoundTrip returned
    fd,         \* index in conns of the connection net.Dial returned, 0: none
    conns,      \* the connections net.Dial has created, with the calls that
                \* wrote to and read from each
    self,       \* the RoundTrip call (goroutine) that is running
    parked,     \* the local state of the other RoundTrip call, if there is one
    d,          \* the caddyfile.Dispenser handed to UnmarshalCaddyfile
    cfg         \* position and result of the UnmarshalCaddyfile call

vars == <<req, params, pc, conn, dialed, entries, blockVars, sent, wire, bodyPos,
          bodyClosed, ioErr, respRead, ret, respBody, fd, conns, self, parked,
          d, cfg>>

----------------------------------------------------------------------------
(* Bytes and strings *)

Ascii ==
    <<" ", "!", "", "#", "$", "%", "&", "'", "(", ")", "*", "+", ",", "-", ".", "/",
      "0", "1", "2", "3", "4", "5", "6", "7", "8", "9", ":", ";", "<", "=", ">", "?", "@",
      "A", "B", "C", "D", "E", "F", "G", "H", "I", "J", "K", "L", "M",
      "N", "O", "P", "Q", "R", "S", "T", "U", "V", "W", "X", "Y", "Z",
      "[", "", "]", "^", "_", "",
      "a", "b", "c", "d", "e", "f", "g", "h", "i", "j", "k", "l", "m",
      "n", "o", "p", "q", "r", "s", "t", "u", "v", "w", "x", "y", "z",
      "{", "|", "}", "~">>

\* the byte value of a printable character
Ord(c) == 31 + (CHOOSE i \in 1..Len(Ascii) : Ascii[i] = c)

\* the byte string spelled by a tuple of characters
Str(s) == [i \in 1..Len(s) |-> Ord(s[i])]

\* the bytes the runs at the positions I of s stand for, beyond one each
RECURSIVE RunExcess(_, _)
RunExcess(s, I) ==
    IF I = {} THEN 0
    ELSE LET i == CHOOSE j \in I : TRUE
         IN  (-s[i] - 1) + RunExcess(s, I \ {i})

\* len(s) in bytes: one per element, and n for a run of n
ByteLen(s) == Len(s) + RunExcess(s, {i \in 1..Len(s) : s[i] < 0})

\* strings.IndexByte: 1-based position of the first c in s, 0 when absent
IndexByte(s, c) ==
    IF \E i \in 1..Len(s) : s[i] = c
    THEN CHOOSE i \in 1..Len(s) : s[i] = c /\ \A j \in 1..(i-1) : s[j] # c
    ELSE 0

\* strings.LastIndexByte: 1-based position of the last c in s, 0 when absent
LastIndexByte(s, c) ==
    IF \E i \in 1..Len(s) : s[i] = c
    THEN CHOOSE i \in 1..Len(s) : s[i] = c /\ \A j \in (i+1)..Len(s) : s[j] # c
    ELSE 0

\* strings.Split(s, string(c))
RECURSIVE Split(_, _)
Split(s, c) ==
    LET i == IndexByte(s, c)
    IN  IF i = 0 THEN <<s>>
        ELSE <<SubSeq(s, 1, i-1)>> \o Split(SubSeq(s, i+1, Len(s)), c)

\* strings.Join(parts, sep)
RECURSIVE Join(_, _)
Join(parts, sep) ==
    IF parts = <<>> THEN <<>>
    ELSE IF Len(parts) = 1 THEN parts[1]
    ELSE parts[1] \o sep \o Join(Tail(parts), sep)

\* strings.ToUpper on ASCII
ToUpper(s) == [i \in 1..Len(s) |-> IF s[i] >= 97 /\ s[i] <= 122 THEN s[i] - 32 ELSE s[i]]

\* headerNameReplacer = strings.NewReplacer("-", "_")
headerNameReplacer(s) == [i \in 1..Len(s) |-> IF s[i] = 45 THEN 95 ELSE s[i]]

Colon == Ord(":")
LBracket == Ord("[")
RBracket == Ord("]")

----------------------------------------------------------------------------
(* net.SplitHostPort, as called at uwsgi.go:80 *)

SplitHostPort(hostport) ==
    LET n   == Len(hostport)
        i   == LastIndexByte(hostport, Colon)
        bad(why) == [host |-> <<>>, port |-> <<>>, err |-> why]
        chk(host, j, k) ==
            IF IndexByte(SubSeq(hostport, j, n), LBracket) # 0
            THEN bad("unexpected '[' in address")
            ELSE IF IndexByte(SubSeq(hostport, k, n), RBracket) # 0
            THEN bad("unexpected ']' in address")
            ELSE [host |-> host, port |-> SubSeq(hostport, i+1, n), err |-> "nil"]
    IN  IF i = 0 THEN bad("missing port in address")
        ELSE IF hostport[1] = LBracket
        THEN LET end == IndexByte(hostport, RBracket)
             IN  IF end = 0 THEN bad("missing ']' in address")
                 ELSE IF end = n THEN bad("missing port in address")
                 ELSE IF end + 1 = i THEN chk(SubSeq(hostport, 2, end-1), 2, end+1)
                 ELSE IF hostport[end+1] = Colon
                 THEN bad("too many colons in address")
                 ELSE bad("missing port in address")
        ELSE LET host == SubSeq(hostport, 1, i-1)
             IN  IF IndexByte(host, Colon) # 0
                 THEN bad("too many colons in address")
                 ELSE chk(host, 1, 1)

----------------------------------------------------------------------------
(* The variable names of generateBlockVars, uwsgi.go:105-123 *)

QUERY_STRING == Str(<<"Q", "U", "E", "R", "Y", "_", "S", "T", "R", "I", "N", "G">>)
REQUEST_METHOD == Str(<<"R", "E", "Q", "U", "E", "S", "T", "_", "M", "E", "T", "H", "O", "D">>)
CONTENT_TYPE == Str(<<"C", "O", "N", "T", "E", "N", "T", "_", "T", "Y", "P", "E">>)
CONTENT_LENGTH == Str(<<"C", "O", "N", "T", "E", "N", "T", "_", "L", "E", "N", "G", "T", "H">>)
REQUEST_URI == Str(<<"R", "E", "Q", "U", "E", "S", "T", "_", "U", "R", "I">>)
PATH_INFO == Str(<<"P", "A", "T", "H", "_", "I", "N", "F", "O">>)
SERVER_PROTOCOL == Str(<<"S", "E", "R", "V", "E", "R", "_", "P", "R", "O", "T", "O", "C", "O", "L">>)
REQUEST_SCHEME == Str(<<"R", "E", "Q", "U", "E", "S", "T", "_", "S", "C", "H", "E", "M", "E">>)
HTTPS == Str(<<"H", "T", "T", "P", "S">>)
REMOTE_ADDR == Str(<<"R", "E", "M", "O", "T", "E", "_", "A", "D", "D", "R">>)
REMOTE_PORT == Str(<<"R", "E", "M", "O", "T", "E", "_", "P", "O", "R", "T">>)
SERVER_PORT == Str(<<"S", "E", "R", "V", "E", "R", "_", "P", "O", "R", "T">>)
SERVER_NAME == Str(<<"S", "E", "R", "V", "E", "R", "_", "N", "A", "M", "E">>)
HTTP_HOST == Str(<<"H", "T", "T", "P", "_", "H", "O", "S", "T">>)

StdNames ==
    {QUERY_STRING, REQUEST_METHOD, CONTENT_TYPE, CONTENT_LENGTH,
     REQUEST_URI, PATH_INFO, SERVER_PROTOCOL, REQUEST_SCHEME,
     HTTPS, REMOTE_ADDR, REMOTE_PORT, SERVER_PORT,
     SERVER_NAME, HTTP_HOST}

\* the header keys read with req.Header.Get, uwsgi.go:108-109
ContentTypeKey == Str(<<"C", "o", "n", "t", "e", "n", "t", "-", "T", "y", "p", "e">>)
ContentLengthKey == Str(<<"C", "o", "n", "t", "e", "n", "t", "-", "L", "e", "n", "g", "t", "h">>)

HTTP_ == Str(<<"H", "T", "T", "P", "_">>)
On == Str(<<"o", "n">>)
Port80 == Str(<<"8", "0">>)
Port443 == Str(<<"4", "4", "3">>)
CommaSpace == Str(<<",", " ">>)

----------------------------------------------------------------------------
(* generateBlockVars, uwsgi.go:79-143 *)

\* http.Header.Get(key) for a key in canonical form: the first value, or ""
HeaderGet(h, key) ==
    IF key \in DOMAIN h /\ Len(h[key]) > 0 THEN h[key][1] ELSE <<>>

\* m[k] = v on a Go map
MapSet(m, k, v) == [x \in DOMAIN m \cup {k} |-> IF x = k THEN v ELSE m[x]]

\* lines 80-83: serverName
serverName(r) ==
    LET sp == SplitHostPort(r.Host)
    IN  IF sp.err # "nil" THEN r.Host ELSE sp.host

\* serverPort with the default chosen only when the split fails
serverPortDefaultOnErrorOnly(r) ==
    LET sp == SplitHostPort(r.Host)
    IN  IF sp.err # "nil"
        THEN (IF ~r.TLS THEN Port80 ELSE Port443)
        ELSE sp.port

\* lines 80, 84-90: serverPort
serverPort(r) ==
    LET sp == SplitHostPort(r.Host)
    IN  IF sp.port = <<>>
        THEN (IF ~r.TLS THEN Port80 ELSE Port443)
        ELSE sp.port

\* the marker set whether or not the request is secure
httpsConnAlwaysOn(r) == On

\* lines 92-95
httpsConn(r) == IF r.TLS THEN On ELSE <<>>

\* line 97
remoteAddrSplit(r) == Split(r.RemoteAddr, Colon)

\* line 99: the parts before the last one, joined again
remoteAddrJoined(r) ==
    LET parts == remoteAddrSplit(r)
    IN  Join(SubSeq(parts, 1, Len(parts) - 1), <<Colon>>)

\* line 100: remoteAddr[0] on an empty string is an index-out-of-range panic
RemoteAddrPanics(r) == Len(remoteAddrJoined(r)) = 0

\* lines 100-103
remoteAddr(r) ==
    LET a == remoteAddrJoined(r)
    IN  IF a[1] = LBracket /\ a[Len(a)] = RBracket
        THEN SubSeq(a, 2, Len(a) - 1)
        ELSE a

\* line 118
remotePort(r) ==
    LET parts == remoteAddrSplit(r)
    IN  parts[Len(parts)]

\* lines 105-127: the map literal, and the second assignment of HTTPS
BaseVars(r) ==
    LET lit == [n \in StdNames |->
                 CASE n = QUERY_STRING    -> r.RawQuery
                   [] n = REQUEST_METHOD  -> r.Method
                   [] n = CONTENT_TYPE    -> HeaderGet(r.Header, ContentTypeKey)
                   [] n = CONTENT_LENGTH  -> HeaderGet(r.Header, ContentLengthKey)
                   [] n = REQUEST_URI     -> r.RequestURI
                   [] n = PATH_INFO       -> r.Path
                   [] n = SERVER_PROTOCOL -> r.Proto
                   [] n = REQUEST_SCHEME  -> r.Scheme
                   [] n = HTTPS           -> httpsConn(r)
                   [] n = REMOTE_ADDR     -> remoteAddr(r)
                   [] n = REMOTE_PORT     -> remotePort(r)
                   [] n = SERVER_PORT     -> serverPort(r)
                   [] n = SERVER_NAME     -> serverName(r)
                   [] n = HTTP_HOST       -> r.Host]
    IN  IF r.TLS THEN MapSet(lit, HTTPS, On) ELSE lit

\* line 130: the name and the value one request header contributes
HeaderVarName(name) == HTTP_ \o headerNameReplacer(ToUpper(name))

\* the values joined with a comma only
HeaderVarValueCommaOnly(values) == Join(values, <<Ord(",")>>)

HeaderVarValue(values) == Join(values, CommaSpace)

\* lines 129-131: the loop over req.Header, visiting the names in `order`
RECURSIVE ApplyHeaders(_, _, _)
ApplyHeaders(v, hdr, order) ==
    IF order = <<>> THEN v
    ELSE ApplyHeaders(MapSet(v, HeaderVarName(Head(order)),
                             HeaderVarValue(hdr[Head(order)])),
                      hdr, Tail(order))

\* the static parameters added without replacing a name already present
ApplyParamsKeepExisting(v, p) ==
    [x \in DOMAIN v \cup DOMAIN p |-> IF x \in DOMAIN v THEN v[x] ELSE p[x]]

\* lines 133-135: the loop over t.UWSGIParams (its keys are distinct, so
\* the visiting order does not matter)
ApplyParams(v, p) ==
    [x \in DOMAIN v \cup DOMAIN p |-> IF x \in DOMAIN p THEN p[x] ELSE v[x]]

\* lines 105-135: the map vars when req.Header is visited in hdrOrder
BlockVars(r, p, hdrOrder) ==
    ApplyParams(ApplyHeaders(BaseVars(r), r.Header, hdrOrder), p)

\* uint16(n)
uint16(n) == n % 65536

\* the two bytes of u in big-endian order
PutUint16BE(u) == <<u \div 256, u % 256>>

\* binary.Write(w, binary.LittleEndian, u) for a uint16 u
PutUint16LE(u) == <<u % 256, u \div 256>>

\* lines 72-76
writeBlockVar(buffer, s) == buffer \o PutUint16LE(uint16(ByteLen(s))) \o s

\* lines 137-142: the bytes of packetBody for the pairs es
RECURSIVE PacketBody(_)
PacketBody(es) ==
    IF es = <<>> THEN <<>>
    ELSE writeBlockVar(writeBlockVar(<<>>, es[1][1]), es[1][2]) \o PacketBody(Tail(es))

\* all orders in which the elements of a set can be visited
RECURSIVE Orders(_)
Orders(S) ==
    IF S = {} THEN {<<>>}
    ELSE UNION {{<<x>> \o o : o \in Orders(S \ {x})} : x \in S}

\* one fixed enumeration of a finite set
RECURSIVE SetToSeq(_)
SetToSeq(S) ==
    IF S = {} THEN <<>>
    ELSE LET x == CHOOSE y \in S : TRUE IN <<x>> \o SetToSeq(S \ {x})

\* line 138: the orders in which `range vars` may visit the keys.  Go leaves
\* the order unspecified; the model takes one enumeration and its reverse.
KeyOrders(v) ==
    LET base == SetToSeq(DOMAIN v)
        n    == Len(base)
    IN  {base, [i \in 1..n |-> base[n + 1 - i]]}

\* lines 137-141: the pairs written when the keys are visited in keyOrder
Entries(v, keyOrder) == [i \in 1..Len(keyOrder) |-> <<keyOrder[i], v[keyOrder[i]]>>]

----------------------------------------------------------------------------
(* The requests and configurations explored *)

MaxHostLen == 4     \* longest req.Host enumerated exhaustively
MaxAddrLen == 4     \* longest req.RemoteAddr enumerated exhaustively
MaxBody == 2        \* longest request body, in bytes
SmallPad == 300     \* a header value needing two length bytes
BigPad == 65275     \* a header value that brings the block to 2^16 bytes or just under
HugePad == 70000    \* a header value that is itself longer than 65535 bytes

\* the characters SplitHostPort and the peer-address split tell apart
AddrAlphabet == {Ord("a"), Colon, LBracket, RBracket}

RECURSIVE StringsUpTo(_, _)
StringsUpTo(A, n) ==
    IF n = 0 THEN {<<>>}
    ELSE LET S == StringsUpTo(A, n - 1)
         IN  S \cup {Append(s, c) : s \in S, c \in A}

\* the strings the sample requests and configurations are built from
HOST_A8 == Str(<<"a", ":", "8">>)
HOST_A == Str(<<"a">>)
HOST_V6 == Str(<<"[", "a", "]", ":", "8">>)
PEER_V4 == Str(<<"a", ":", "5">>)
PEER_V6 == Str(<<"[", ":", ":", "1", "]", ":", "5">>)
PEER_UNIX == Str(<<"@">>)
X_CUSTOM_ID_KEY == Str(<<"X", "-", "C", "u", "s", "t", "o", "m", "-", "I", "d">>)
ACCEPT_KEY == Str(<<"A", "c", "c", "e", "p", "t">>)
X_A_DASH_KEY == Str(<<"X", "-", "A">>)
X_A_UNDER_KEY == Str(<<"X", "_", "a">>)
HOST_KEY == Str(<<"H", "o", "s", "t">>)
X_BIG_KEY == Str(<<"X", "-", "B", "i", "g">>)
VAL_42 == Str(<<"4", "2">>)
VAL_HTML == Str(<<"t", "/", "h">>)
VAL_JSON == Str(<<"a", "/", "j">>)
VAL_1 == Str(<<"1">>)
VAL_2 == Str(<<"2">>)
VAL_APP == Str(<<"/", "a", "p", "p">>)
VAL_OFF == Str(<<"o", "f", "f">>)
SCRIPT_NAME == Str(<<"S", "C", "R", "I", "P", "T", "_", "N", "A", "M", "E">>)
HTTP_X_A == Str(<<"H", "T", "T", "P", "_", "X", "_", "A">>)
METHOD_GET == Str(<<"G", "E", "T">>)
URI_STATUS == Str(<<"/", "s", "?", "x", "=", "1">>)
PATH_STATUS == Str(<<"/", "s">>)
QUERY_X1 == Str(<<"x", "=", "1">>)
PROTO_11 == Str(<<"H", "T", "T", "P", "/", "1", ".", "1">>)
SCHEME_HTTP == Str(<<"h", "t", "t", "p">>)
SCHEME_HTTPS == Str(<<"h", "t", "t", "p", "s">>)

HostSamples == {HOST_A8, HOST_A, HOST_V6}
PeerSamples == {PEER_V4, PEER_V6, PEER_UNIX}

AllHosts == StringsUpTo(AddrAlphabet, MaxHostLen) \cup HostSamples
AllPeers == StringsUpTo(AddrAlphabet, MaxAddrLen) \cup PeerSamples

NoBody == [present |-> FALSE, data |-> <<>>]
Bodies == {NoBody} \cup {[present |-> TRUE, data |-> [i \in 1..n |-> 97 + i]] : n \in 0..MaxBody}

NoDialInfo == [ok |-> FALSE, Network |-> "", Address |-> ""]
DialInfos == {NoDialInfo, [ok |-> TRUE, Network |-> "unix", Address |-> "/run/uwsgi.sock"]}

\* a value of n filler bytes
Filler(n) == IF n = 0 THEN <<>> ELSE <<-n>>

NoHeader == <<>>
Headers ==
    {NoHeader,
     X_CUSTOM_ID_KEY :> <<VAL_42>>,
     ACCEPT_KEY :> <<VAL_HTML, VAL_JSON>>,
     (X_A_DASH_KEY :> <<VAL_1>>) @@ (X_A_UNDER_KEY :> <<VAL_2>>),
     (ContentTypeKey :> <<VAL_HTML>>) @@ (ContentLengthKey :> <<VAL_2>>),
     HOST_KEY :> <<HOST_A8>>}
BigHeaders ==
    {X_BIG_KEY :> <<Filler(n)>> :
        n \in {SmallPad, BigPad, BigPad + 1, BigPad + 2, HugePad}}

NoParams == <<>>
Params ==
    {NoParams,
     SCRIPT_NAME :> VAL_APP,
     (SERVER_NAME :> VAL_1) @@ (SERVER_PORT :> <<>>),
     (HTTP_X_A :> VAL_HTML) @@ (HTTP_HOST :> VAL_2),
     HTTPS :> VAL_OFF}

Request(host, peer, tls, hdr, body, di) ==
    [Host |-> host, RemoteAddr |-> peer, TLS |-> tls, Header |-> hdr,
     Body |-> body, DialInfo |-> di,
     Method |-> METHOD_GET, RequestURI |-> URI_STATUS, Path |-> PATH_STATUS,
     RawQuery |-> QUERY_X1, Proto |-> PROTO_11,
     Scheme |-> IF tls THEN SCHEME_HTTPS ELSE SCHEME_HTTP,
     URLHost |-> "10.0.0.1:3031"]

----------------------------------------------------------------------------
(* Transport.RoundTrip, uwsgi.go:145-173 *)

\* the state in which RoundTrip is entered
Entered ==
    /\ pc = "dial"
    /\ conn = "nil"
    /\ dialed = <<>>
    /\ entries = <<>>
    /\ blockVars = <<>>
    /\ sent = <<>>
    /\ wire = <<>>
    /\ bodyPos = 0
    /\ bodyClosed = 0
    /\ ioErr = {}
    /\ respRead = 0
    /\ ret = "none"
    /\ respBody = "none"
    /\ fd = 0

\* no other call
NoCall == <<>>

\* UnmarshalCaddyfile is not running: the configuration has been loaded
NoDispenser == [tokens |-> <<>>, cursor |-> 0, nesting |-> 0]
Loaded == [pc |-> "done", nesting |-> 0, ret |-> [err |-> "nil", name |-> ""]]

Init ==
    /\ Entered
    /\ d = NoDispenser
    /\ cfg = Loaded
    /\ conns = <<>>
    /\ self = 1
    /\ parked = NoCall
    /\ \/ /\ req \in {Request(h, PEER_V6, tls, NoHeader, NoBody, NoDialInfo) :
                        h \in AllHosts, tls \in BOOLEAN}
          /\ params = NoParams
       \/ /\ req \in {Request(HOST_A8, a, FALSE, NoHeader, NoBody, NoDialInfo) :
                        a \in AllPeers}
          /\ params = NoParams
       \/ /\ req \in {Request(h, a, tls, hdr, NoBody, NoDialInfo) :
                        h \in {HOST_A}, a \in {PEER_V4}, tls \in BOOLEAN,
                        hdr \in Headers \cup BigHeaders}
          /\ params \in Params
       \/ /\ req \in {Request(h, a, FALSE, X_CUSTOM_ID_KEY :> <<VAL_42>>, b, di) :
                        h \in HostSamples, a \in PeerSamples, b \in Bodies,
                        di \in DialInfos}
          /\ params \in {NoParams, SCRIPT_NAME :> VAL_APP}

\* the dial target taken from the request URL only
DialTargetIgnoringDialInfo(r) == <<"tcp", r.URLHost>>

\* lines 146-151: the dial target
DialTarget(r) ==
    IF r.DialInfo.ok
    THEN <<r.DialInfo.Network, r.DialInfo.Address>>
    ELSE <<"tcp", r.URLHost>>

\* a dial that is tried a second time after a failure
DialWithRetry ==
    /\ pc = "dial"
    /\ dialed' = Append(dialed, DialTarget(req))
    /\ \/ /\ conn' = "open"
          /\ conns' = Append(conns, [dialedBy |-> self, writtenBy |-> {}, readBy |-> {}])
          /\ fd' = Len(conns) + 1
          /\ pc' = "encode"
          /\ ret' = ret
       \/ /\ conn' = conn
          /\ pc' = IF Len(dialed) < 1 THEN "dial" ELSE "done"
          /\ ret' = IF Len(dialed) < 1 THEN ret ELSE "err"
          /\ UNCHANGED <<fd, conns>>
    /\ UNCHANGED <<d, cfg, self, parked, respBody, req, params, entries, blockVars, sent, wire, bodyPos, bodyClosed, ioErr, respRead>>

\* lines 152-155: net.Dial, which the environment lets succeed or fail
Dial ==
    /\ pc = "dial"
    /\ dialed' = Append(dialed, DialTarget(req))
    /\ \/ /\ conn' = "open"
          /\ conns' = Append(conns, [dialedBy |-> self, writtenBy |-> {}, readBy |-> {}])
          /\ fd' = Len(conns) + 1
          /\ pc' = "encode"
          /\ ret' = ret
       \/ /\ conn' = conn
          /\ pc' = "done"
          /\ ret' = "err"
          /\ UNCHANGED <<fd, conns>>
    /\ UNCHANGED <<d, cfg, self, parked, respBody, req, params, entries, blockVars, sent, wire, bodyPos, bodyClosed, ioErr, respRead>>

\* line 157, when generateBlockVars panics at line 100: the panic unwinds
\* RoundTrip, which has no deferred calls
GenerateBlockVarsPanic ==
    /\ pc = "encode"
    /\ RemoteAddrPanics(req)
    /\ pc' = "done"
    /\ ret' = "panic"
    /\ UNCHANGED <<d, cfg, self, parked, respBody, fd, conns, req, params, conn, dialed, entries, blockVars, sent, wire, bodyPos,
                   bodyClosed, ioErr, respRead>>

\* an encoder that builds the variables in the Transport's own map
GenerateBlockVarsIntoParams ==
    /\ pc = "encode"
    /\ ~RemoteAddrPanics(req)
    /\ \E hdrOrder \in Orders(DOMAIN req.Header) :
         LET v == BlockVars(req, params, hdrOrder)
         IN  \E keyOrder \in KeyOrders(v) :
               /\ params' = v
               /\ entries' = Entries(v, keyOrder)
               /\ blockVars' = PacketBody(Entries(v, keyOrder))
    /\ pc' = "modifier1"
    /\ UNCHANGED <<d, cfg, self, parked, respBody, fd, conns, req, conn, dialed, sent, wire,
                   bodyPos, bodyClosed, ioErr, respRead, ret>>

\* lines 157-160, when generateBlockVars returns: its error is always nil
\* (line 142), so the return at line 159 is never taken
GenerateBlockVars ==
    /\ pc = "encode"
    /\ ~RemoteAddrPanics(req)
    /\ \E hdrOrder \in Orders(DOMAIN req.Header) :
         LET v == BlockVars(req, params, hdrOrder)
         IN  \E keyOrder \in KeyOrders(v) :
               /\ entries' = Entries(v, keyOrder)
               /\ blockVars' = PacketBody(Entries(v, keyOrder))
    /\ pc' = "modifier1"
    /\ UNCHANGED <<d, cfg, self, parked, respBody, fd, conns, req, params, conn, dialed, sent, wire, bodyPos, bodyClosed,
                   ioErr, respRead, ret>>

\* conn.Write(data): the data is handed to the connection, which accepts it
\* or fails; a connection that has failed once keeps failing.  The caller
\* ignores the error.
ConnWrite(data) ==
    /\ sent' = sent \o data
    /\ conns' = [conns EXCEPT ![fd].writtenBy = @ \cup {self}]
    /\ \/ /\ "write" \notin ioErr
          /\ wire' = wire \o data
          /\ ioErr' = ioErr
       \/ /\ wire' = wire
          /\ ioErr' = ioErr \cup {"write"}

\* line 162
WriteModifier1 ==
    /\ pc = "modifier1"
    /\ ConnWrite(<<0>>)
    /\ pc' = "datasize"
    /\ UNCHANGED <<d, cfg, self, parked, respBody, fd, req, params, conn, dialed, entries, blockVars, bodyPos, bodyClosed, respRead, ret>>

\* line 163
Datasize(buf) == PutUint16LE(uint16(ByteLen(buf)))

WriteDatasize ==
    /\ pc = "datasize"
    /\ ConnWrite(Datasize(blockVars))
    /\ pc' = "modifier2"
    /\ UNCHANGED <<d, cfg, self, parked, respBody, fd, req, params, conn, dialed, entries, blockVars, bodyPos, bodyClosed, respRead, ret>>

\* line 164
WriteModifier2 ==
    /\ pc = "modifier2"
    /\ ConnWrite(<<0>>)
    /\ pc' = "packet"
    /\ UNCHANGED <<d, cfg, self, parked, respBody, fd, req, params, conn, dialed, entries, blockVars, bodyPos, bodyClosed, respRead, ret>>

\* line 165: io.Copy(conn, blockVars) is one conn.Write of the whole buffer
WritePacketBody ==
    /\ pc = "packet"
    /\ ConnWrite(blockVars)
    /\ pc' = "body"
    /\ UNCHANGED <<d, cfg, self, parked, respBody, fd, req, params, conn, dialed, entries, blockVars, bodyPos, bodyClosed, respRead, ret>>

\* line 167, req.Body == nil
NoRequestBody ==
    /\ pc = "body"
    /\ ~req.Body.present
    /\ pc' = "read"
    /\ UNCHANGED <<d, cfg, self, parked, respBody, fd, conns, req, params, conn, dialed, entries, blockVars, sent, wire, bodyPos,
                   bodyClosed, ioErr, respRead, ret>>

\* line 168: one round of io.Copy(conn, req.Body): a byte is read from the
\* body and written to conn; the copy ends at the first failed write
CopyBodyByte ==
    /\ pc = "body"
    /\ req.Body.present
    /\ bodyPos < Len(req.Body.data)
    /\ bodyPos' = bodyPos + 1
    /\ ConnWrite(<<req.Body.data[bodyPos + 1]>>)
    /\ pc' = IF "write" \in ioErr' THEN "close" ELSE "body"
    /\ UNCHANGED <<d, cfg, self, parked, respBody, fd, req, params, conn, dialed, entries, blockVars, bodyClosed, respRead, ret>>

\* line 168: the body stream fails while it is read; the copy ends
CopyBodyReadError ==
    /\ pc = "body"
    /\ req.Body.present
    /\ bodyPos < Len(req.Body.data)
    /\ ioErr' = ioErr \cup {"bodyread"}
    /\ pc' = "close"
    /\ UNCHANGED <<d, cfg, self, parked, respBody, fd, conns, req, params, conn, dialed, entries, blockVars, sent, wire, bodyPos,
                   bodyClosed, respRead, ret>>

\* line 168: the body stream reports io.EOF; the copy ends
CopyBodyEOF ==
    /\ pc = "body"
    /\ req.Body.present
    /\ bodyPos = Len(req.Body.data)
    /\ pc' = "close"
    /\ UNCHANGED <<d, cfg, self, parked, respBody, fd, conns, req, params, conn, dialed, entries, blockVars, sent, wire, bodyPos,
                   bodyClosed, ioErr, respRead, ret>>

\* line 169
CloseBody ==
    /\ pc = "close"
    /\ bodyClosed' = bodyClosed + 1
    /\ pc' = "read"
    /\ UNCHANGED <<d, cfg, self, parked, respBody, fd, conns, req, params, conn, dialed, entries, blockVars, sent, wire, bodyPos,
                   ioErr, respRead, ret>>

\* line 172: http.ReadResponse reads from conn what the backend sends, which
\* is a well-formed response or not; its result is returned as it is.  The
\* Body of a returned response reads from conn through the bufio.Reader.
ReadResponse ==
    /\ pc = "read"
    /\ conns' = [conns EXCEPT ![fd].readBy = @ \cup {self}]
    /\ \/ /\ respRead' = respRead + 1
          /\ ret' = "resp"
          /\ respBody' = "open"
       \/ /\ respRead' \in {respRead, respRead + 1}
          /\ ret' = "err"
          /\ respBody' = respBody
    /\ pc' = "done"
    /\ UNCHANGED <<d, cfg, self, parked, fd, req, params, conn, dialed, entries, blockVars, sent, wire,
                   bodyPos, bodyClosed, ioErr>>

\* after line 172: the caller reads the Body of the returned response to its
\* end, or closes it.  Neither reaches conn: the Body http.ReadResponse
\* builds holds the bufio.Reader only, and RoundTrip has kept no reference
\* that would close conn.
CallerFinishesBody ==
    /\ pc = "done"
    /\ ret = "resp"
    /\ respBody = "open"
    /\ respBody' \in {"consumed", "closed"}
    /\ UNCHANGED <<d, cfg, self, parked, fd, conns, req, params, pc, conn, dialed, entries, blockVars,
                   sent, wire, bodyPos, bodyClosed, ioErr, respRead, ret>>

Next ==
    \/ Dial
    \/ GenerateBlockVarsPanic
    \/ GenerateBlockVars
    \/ WriteModifier1
    \/ WriteDatasize
    \/ WriteModifier2
    \/ WritePacketBody
    \/ NoRequestBody
    \/ CopyBodyByte
    \/ CopyBodyReadError
    \/ CopyBodyEOF
    \/ CloseBody
    \/ ReadResponse
    \/ CallerFinishesBody

Spec == Init /\ [][Next]_vars

----------------------------------------------------------------------------
(* Two concurrent RoundTrip calls on one Transport *)

\* the local variables of the running call
Locals ==
    [req |-> req, pc |-> pc, conn |-> conn, dialed |-> dialed, entries |-> entries,
     blockVars |-> blockVars, sent |-> sent, wire |-> wire, bodyPos |-> bodyPos,
     bodyClosed |-> bodyClosed, ioErr |-> ioErr, respRead |-> respRead, ret |-> ret,
     respBody |-> respBody, fd |-> fd]

\* the local variables of a call that has just been entered with request r
EnteredWith(r) ==
    [req |-> r, pc |-> "dial", conn |-> "nil", dialed |-> <<>>, entries |-> <<>>,
     blockVars |-> <<>>, sent |-> <<>>, wire |-> <<>>, bodyPos |-> 0,
     bodyClosed |-> 0, ioErr |-> {}, respRead |-> 0, ret |-> "none",
     respBody |-> "none", fd |-> 0]

\* the scheduler runs the other goroutine: the two calls share the Transport
\* (params) and the network (conns), and nothing else
Switch ==
    /\ parked # NoCall
    /\ self' = 3 - self
    /\ parked' = Locals
    /\ req' = parked.req
    /\ pc' = parked.pc
    /\ conn' = parked.conn
    /\ dialed' = parked.dialed
    /\ entries' = parked.entries
    /\ blockVars' = parked.blockVars
    /\ sent' = parked.sent
    /\ wire' = parked.wire
    /\ bodyPos' = parked.bodyPos
    /\ bodyClosed' = parked.bodyClosed
    /\ ioErr' = parked.ioErr
    /\ respRead' = parked.respRead
    /\ ret' = parked.ret
    /\ respBody' = parked.respBody
    /\ fd' = parked.fd
    /\ UNCHANGED <<params, conns, d, cfg>>

\* the request of the first call
ConcRequest1 ==
    Request(HOST_A8, PEER_V4, FALSE,
            (X_A_DASH_KEY :> <<VAL_1>>) @@ (X_A_UNDER_KEY :> <<VAL_2>>),
            [present |-> TRUE, data |-> <<98>>], NoDialInfo)

\* the requests of the second call
ConcRequests2 ==
    {Request(HOST_A, PEER_V6, TRUE, ACCEPT_KEY :> <<VAL_HTML, VAL_JSON>>,
             NoBody, [ok |-> TRUE, Network |-> "unix", Address |-> "/run/uwsgi.sock"]),
     Request(HOST_V6, PEER_UNIX, FALSE, NoHeader, NoBody, NoDialInfo)}

InitConc ==
    /\ Entered
    /\ d = NoDispenser
    /\ cfg = Loaded
    /\ conns = <<>>
    /\ self = 1
    /\ params = (SCRIPT_NAME :> VAL_APP)
    /\ req = ConcRequest1
    /\ parked \in {EnteredWith(r) : r \in ConcRequests2}

NextConc ==
    \/ Next
    \/ Switch

SpecConc == InitConc /\ [][NextConc]_vars

----------------------------------------------------------------------------
(* Transport.UnmarshalCaddyfile, uwsgi.go:175-199 *)

\* the variables of a RoundTrip call, which the configuration load leaves alone
callVars == <<req, pc, conn, dialed, entries, blockVars, sent, wire, bodyPos,
              bodyClosed, ioErr, respRead, ret, respBody, fd, conns, self, parked>>

\* d.Val(): the text of the token under the cursor
Val(dd) == dd.tokens[dd.cursor].Text

\* d.Next() (line 177): move to the next token, if there is one
DispenserNext(dd) ==
    IF dd.cursor < Len(dd.tokens)
    THEN [ok |-> TRUE, d |-> [dd EXCEPT !.cursor = @ + 1]]
    ELSE [ok |-> FALSE, d |-> dd]

\* the dispenser's step to the next token when it is on the line of the
\* current one
nextOnSameLine(dd) ==
    IF dd.cursor = 0
    THEN [ok |-> TRUE, d |-> [dd EXCEPT !.cursor = 1]]
    ELSE IF dd.cursor >= Len(dd.tokens)
    THEN [ok |-> FALSE, d |-> dd]
    ELSE IF dd.tokens[dd.cursor].Line = dd.tokens[dd.cursor + 1].Line
    THEN [ok |-> TRUE, d |-> [dd EXCEPT !.cursor = @ + 1]]
    ELSE [ok |-> FALSE, d |-> dd]

\* d.NextArg() (lines 181, 186): the next token of the line, unless it
\* opens a block
NextArg(dd) ==
    LET r == nextOnSameLine(dd)
    IN  IF ~r.ok THEN r
        ELSE IF Val(r.d) = "{" THEN [ok |-> FALSE, d |-> dd]
        ELSE r

\* d.NextBlock(initialNestingLevel) (line 178)
NextBlock(dd, initial) ==
    IF dd.nesting > initial
    THEN LET n == DispenserNext(dd)
         IN  IF ~n.ok THEN n
             ELSE LET s == IF Val(n.d) \in {"{", "}"}
                           THEN nextOnSameLine(n.d)
                           ELSE [ok |-> TRUE, d |-> n.d]
                      e == IF s.ok THEN s.d
                           ELSE [s.d EXCEPT !.nesting =
                                    IF Val(n.d) = "}" THEN @ - 1 ELSE @ + 1]
                  IN  [ok |-> e.nesting > initial, d |-> e]
    ELSE LET s == nextOnSameLine(dd)
         IN  IF ~s.ok THEN s
             ELSE IF Val(s.d) # "{" THEN [ok |-> FALSE, d |-> dd]
             ELSE LET n == DispenserNext(s.d)
                  IN  IF Val(n.d) = "}" THEN [ok |-> FALSE, d |-> n.d]
                      ELSE [ok |-> TRUE, d |-> [n.d EXCEPT !.nesting = @ + 1]]

\* the value stored only when the key is new
StoreParamFirstWins(p, key, value) ==
    IF key \in DOMAIN p THEN p ELSE MapSet(p, key, value)

\* line 191: t.UWSGIParams[key] = value
StoreParam(p, key, value) == MapSet(p, key, value)

\* d.ArgErr() and d.Errf(..): the error returned, with the token it names
CfgError(kind, dd) == [err |-> kind, name |-> Val(dd)]

MaxLines == 3       \* most lines in the block of the transport directive

UWSGI_PARAM == "uwsgi_param"

\* the lines a block is made of
LineShapes ==
    {<<UWSGI_PARAM>>,
     <<UWSGI_PARAM, "K1">>,
     <<UWSGI_PARAM, "K1", "V1">>,
     <<UWSGI_PARAM, "K1", "V2">>,
     <<UWSGI_PARAM, "K2", "V1">>,
     <<UWSGI_PARAM, UWSGI_PARAM, UWSGI_PARAM>>,
     <<UWSGI_PARAM, "K1", "V1", "extra">>,
     <<UWSGI_PARAM, "K1", "V1", UWSGI_PARAM, "K1", "V2">>,
     <<"env">>,
     <<"env", "K1", "V1">>}

\* the tokens of the given lines, the first of them on line number first
RECURSIVE LineTokens(_, _)
LineTokens(lines, first) ==
    IF lines = <<>> THEN <<>>
    ELSE [i \in 1..Len(lines[1]) |-> [Text |-> lines[1][i], Line |-> first]]
            \o LineTokens(Tail(lines), first + 1)

\* the segment `uwsgi { <lines> }` the reverse proxy hands over, for the
\* module name followed by a block
Segment(lines) ==
    <<[Text |-> "uwsgi", Line |-> 1], [Text |-> "{", Line |-> 1]>>
        \o LineTokens(lines, 2)
        \o <<[Text |-> "}", Line |-> Len(lines) + 2]>>

\* the segment of the module name alone
BareSegment == <<[Text |-> "uwsgi", Line |-> 1]>>

Segments ==
    {BareSegment} \cup
    {Segment(lines) : lines \in UNION {[1..n -> LineShapes] : n \in 0..MaxLines}}

\* the Transport as CaddyModule().New makes it (lines 63-67) and a
\* dispenser in front of its first token
InitConfig ==
    /\ Entered
    /\ req = Request(HOST_A8, PEER_V4, FALSE, NoHeader, NoBody, NoDialInfo)
    /\ conns = <<>>
    /\ self = 1
    /\ parked = NoCall
    /\ params = NoParams
    /\ d \in {[tokens |-> s, cursor |-> 0, nesting |-> 0] : s \in Segments}
    /\ cfg = [pc |-> "outer", nesting |-> 0, ret |-> [err |-> "none", name |-> ""]]

\* line 177: for d.Next(); line 198 when there is no further token
OuterNext ==
    /\ cfg.pc = "outer"
    /\ LET n == DispenserNext(d)
       IN  /\ d' = n.d
           /\ cfg' = IF n.ok
                     THEN [cfg EXCEPT !.pc = "block", !.nesting = n.d.nesting]
                     ELSE [cfg EXCEPT !.pc = "done", !.ret = [err |-> "nil", name |-> ""]]
    /\ UNCHANGED <<params, callVars>>

\* line 178: the condition d.NextBlock(nesting) of the inner loop
InnerNextBlock ==
    /\ cfg.pc = "block"
    /\ LET b == NextBlock(d, cfg.nesting)
       IN  /\ d' = b.d
           /\ cfg' = [cfg EXCEPT !.pc = IF b.ok THEN "switch" ELSE "outer"]
    /\ UNCHANGED <<params, callVars>>

\* lines 180-191: case "uwsgi_param"
CaseUwsgiParam ==
    /\ cfg.pc = "switch"
    /\ Val(d) = UWSGI_PARAM
    /\ LET k == NextArg(d)
           v == NextArg(k.d)
       IN  IF ~k.ok
           THEN /\ d' = k.d
                /\ cfg' = [cfg EXCEPT !.pc = "done", !.ret = CfgError("ArgErr", k.d)]
                /\ params' = params
           ELSE IF ~v.ok
           THEN /\ d' = v.d
                /\ cfg' = [cfg EXCEPT !.pc = "done", !.ret = CfgError("ArgErr", v.d)]
                /\ params' = params
           ELSE /\ d' = v.d
                /\ cfg' = [cfg EXCEPT !.pc = "block"]
                /\ params' = StoreParam(params, Val(k.d), Val(v.d))
    /\ UNCHANGED callVars

\* lines 192-193: default
CaseDefault ==
    /\ cfg.pc = "switch"
    /\ Val(d) # UWSGI_PARAM
    /\ cfg' = [cfg EXCEPT !.pc = "done", !.ret = CfgError("unknown subdirective", d)]
    /\ UNCHANGED <<d, params, callVars>>

NextConfig ==
    \/ OuterNext
    \/ InnerNextBlock
    \/ CaseUwsgiParam
    \/ CaseDefault

SpecConfig == InitConfig /\ [][NextConfig]_vars

----------------------------------------------------------------------------
(* Properties *)

\* generateBlockVars has returned its buffer
Encoded == entries # <<>>

\* generateBlockVars has been called (it returned, or it panicked)
EncodeCalled == conn = "open" /\ pc \notin {"dial", "encode"}

BlockNames == {entries[i][1] : i \in DOMAIN entries}

\* the value of the block entry named n
EntryValue(n) == entries[CHOOSE i \in DOMAIN entries : entries[i][1] = n][2]

DefaultPort == IF req.TLS THEN Port443 ELSE Port80

\* the byte length of the block of this call
BlockLen == ByteLen(blockVars)

\* C1: the block holds exactly one entry per unique variable name (the
\* standard names, one HTTP_ name per request header, the static names), and
\* every name of the static parameter mapping carries the static value.
C1_OneEntryPerNameStaticWins ==
    Encoded =>
        /\ \A i, j \in DOMAIN entries : entries[i][1] = entries[j][1] => i = j
        /\ BlockNames = StdNames \cup {HeaderVarName(h) : h \in DOMAIN req.Header}
                                 \cup DOMAIN params
        /\ \A i \in DOMAIN entries :
             entries[i][1] \in DOMAIN params => entries[i][2] = params[entries[i][1]]

\* a block was encoded in which a static name is also a standard variable
\* with another derived value, and a static name is also derived from a header
C1_Witness ==
    /\ Encoded
    /\ \E n \in DOMAIN params \cap StdNames : BaseVars(req)[n] # params[n]
    /\ \E h \in DOMAIN req.Header :
         /\ HeaderVarName(h) \in DOMAIN params
         /\ HeaderVarValue(req.Header[h]) # params[HeaderVarName(h)]

\* C2: when the block is longer than 65535 bytes the length field is never
\* written to the connection and the call returns an error.
C2_OversizedBlockFails ==
    (Encoded /\ BlockLen > 65535) =>
        /\ Len(sent) < 3
        /\ (pc = "done" => ret = "err")

\* the bytes of one whole request: header, block, body
WholeRequest ==
    <<0, BlockLen % 256, (BlockLen \div 256) % 256, 0>>
        \o blockVars \o req.Body.data

IsPrefix(s, whole) == Len(s) <= Len(whole) /\ s = SubSeq(whole, 1, Len(s))

\* C3: the connection receives the bytes in the order header, block, body,
\* and a response byte is read only after all of them have been written.
C3_WritesCompleteBeforeRead ==
    /\ Encoded => IsPrefix(wire, WholeRequest)
    /\ respRead > 0 => wire = WholeRequest

\* C4: when the call has returned, a body stream the request carried has been
\* closed exactly once.
C4_BodyClosedOnce ==
    (pc = "done" /\ req.Body.present) => bodyClosed = 1

\* C5: when the call has returned an error after the connection was opened,
\* the connection is closed.
C5_ConnClosedOnError ==
    (pc = "done" /\ ret = "err" /\ conn # "nil") => conn = "closed"

\* C6: when a write to the connection or the copy of the body has failed,
\* the call returns an error.
C6_WriteFailureIsError ==
    (pc = "done" /\ ioErr # {}) => ret = "err"

\* the peer-address string has no ':' or nothing before its last ':'
MalformedPeer(a) == LastIndexByte(a, Colon) <= 1

\* C7: for a malformed peer address the call ends with an error return, not
\* a panic, and nothing has been handed to the connection.
C7_MalformedPeerIsError ==
    (EncodeCalled /\ MalformedPeer(req.RemoteAddr)) =>
        /\ pc = "done"
        /\ ret = "err"
        /\ sent = <<>>

\* C8: for a block of L <= 65535 bytes the bytes handed to the connection
\* before the body are 0x00, L as two little-endian bytes, 0x00 and the
\* block; the length field reads back as L; without a body nothing follows.
C8_FrameLayout ==
    (Encoded /\ pc \in {"body", "close", "read", "done"} /\ BlockLen <= 65535) =>
        LET block == blockVars
        IN  /\ Len(sent) >= 4 + Len(block)
            /\ sent[1] = 0
            /\ sent[2] \in 0..255 /\ sent[3] \in 0..255
            /\ sent[2] + 256 * sent[3] = BlockLen
            /\ sent[4] = 0
            /\ SubSeq(sent, 5, 4 + Len(block)) = block
            /\ (~req.Body.present => Len(sent) = 4 + Len(block))

\* a request without body has returned a response after sending a block of
\* exactly 65535 bytes
C8_Witness ==
    /\ pc = "done"
    /\ ret = "resp"
    /\ ~req.Body.present
    /\ BlockLen = 65535
    /\ sent # <<>>

\* the substrings of the peer address around its last ':'
BeforeLastColon(a) == SubSeq(a, 1, LastIndexByte(a, Colon) - 1)
AfterLastColon(a) == SubSeq(a, LastIndexByte(a, Colon) + 1, Len(a))

\* s without one enclosing pair of brackets
Unbracketed(s) ==
    IF Len(s) >= 2 /\ s[1] = LBracket /\ s[Len(s)] = RBracket
    THEN SubSeq(s, 2, Len(s) - 1)
    ELSE s

\* C9: for a peer address with a ':', the block carries REMOTE_PORT = the
\* part after the last ':' and REMOTE_ADDR = the part before it, without one
\* enclosing pair of brackets.
C9_PeerAddrSplit ==
    (EncodeCalled /\ LastIndexByte(req.RemoteAddr, Colon) # 0
        /\ DOMAIN params \cap {REMOTE_ADDR, REMOTE_PORT} = {}) =>
        /\ Encoded
        /\ EntryValue(REMOTE_PORT) = AfterLastColon(req.RemoteAddr)
        /\ EntryValue(REMOTE_ADDR) = Unbracketed(BeforeLastColon(req.RemoteAddr))

\* C10 as stated: a host string that splits gives the split name and port; one
\* that does not gives the whole string and the default port; SERVER_PORT is
\* never empty.
C10_AsStated ==
    (Encoded /\ DOMAIN params \cap {SERVER_NAME, SERVER_PORT} = {}) =>
        LET sp == SplitHostPort(req.Host)
        IN  /\ sp.err = "nil" =>
                /\ EntryValue(SERVER_NAME) = sp.host
                /\ EntryValue(SERVER_PORT) = sp.port
            /\ sp.err # "nil" =>
                /\ EntryValue(SERVER_NAME) = req.Host
                /\ EntryValue(SERVER_PORT) = DefaultPort
            /\ EntryValue(SERVER_PORT) # <<>>

\* C10, amended: a host string that splits with a non-empty port gives the
\* split name and port; one that splits with an empty port (a trailing ':')
\* gives the split name and the default port; one that does not split gives
\* the whole string and the default port; SERVER_PORT is never empty.
C10_ServerNamePort ==
    (Encoded /\ DOMAIN params \cap {SERVER_NAME, SERVER_PORT} = {}) =>
        LET sp == SplitHostPort(req.Host)
        IN  /\ (sp.err = "nil" /\ sp.port # <<>>) =>
                /\ EntryValue(SERVER_NAME) = sp.host
                /\ EntryValue(SERVER_PORT) = sp.port
            /\ (sp.err = "nil" /\ sp.port = <<>>) =>
                /\ EntryValue(SERVER_NAME) = sp.host
                /\ EntryValue(SERVER_PORT) = DefaultPort
            /\ sp.err # "nil" =>
                /\ EntryValue(SERVER_NAME) = req.Host
                /\ EntryValue(SERVER_PORT) = DefaultPort
            /\ EntryValue(SERVER_PORT) # <<>>

\* a secure request whose host string ends in ':' after a non-empty name has
\* been encoded
C10_Witness ==
    /\ Encoded
    /\ req.TLS
    /\ params = NoParams
    /\ SplitHostPort(req.Host).err = "nil"
    /\ SplitHostPort(req.Host).port = <<>>
    /\ SplitHostPort(req.Host).host # <<>>

\* C11 as stated: whatever the static parameter mapping, HTTPS is "on" for a
\* secure request and empty for a non-secure one.
C11_AsStated ==
    Encoded => EntryValue(HTTPS) = (IF req.TLS THEN On ELSE <<>>)

\* C11, amended: when the static parameter mapping does not define HTTPS,
\* the block's HTTPS entry is "on" for a secure request and empty for a
\* non-secure one; when it does, the entry carries the static value.
C11_HttpsFlag ==
    Encoded =>
        /\ HTTPS \in BlockNames
        /\ EntryValue(HTTPS) =
             (IF HTTPS \in DOMAIN params THEN params[HTTPS]
              ELSE IF req.TLS THEN On ELSE <<>>)

\* a non-secure request was encoded under a non-empty static mapping that
\* leaves HTTPS alone
C11_Witness ==
    /\ Encoded
    /\ ~req.TLS
    /\ params # NoParams
    /\ HTTPS \notin DOMAIN params

\* "HTTP_" followed by the header name uppercased, every '-' turned into '_'
DerivedName(h) ==
    HTTP_ \o [i \in 1..Len(h) |->
                IF h[i] = Ord("-") THEN Ord("_")
                ELSE IF h[i] >= Ord("a") /\ h[i] <= Ord("z") THEN h[i] - 32
                ELSE h[i]]

\* the values in order, ", " between two neighbours
RECURSIVE CommaJoined(_)
CommaJoined(vs) ==
    IF Len(vs) = 0 THEN <<>>
    ELSE IF Len(vs) = 1 THEN vs[1]
    ELSE CommaJoined(SubSeq(vs, 1, Len(vs) - 1))
            \o <<Ord(","), Ord(" ")>> \o vs[Len(vs)]

\* C12 as stated: every request header has its entry, named by DerivedName
\* and carrying that header's values joined with ", ".
C12_AsStated ==
    Encoded =>
        \A h \in DOMAIN req.Header :
            /\ DerivedName(h) \in BlockNames
            /\ EntryValue(DerivedName(h)) = CommaJoined(req.Header[h])

\* C12, amended: every request header has exactly one entry named by
\* DerivedName; it carries the static value when the static mapping defines
\* that name, and otherwise the ", "-joined values of that header or of
\* another header of the request with the same derived name.
C12_HeaderEntries ==
    Encoded =>
        \A h \in DOMAIN req.Header :
            LET n == DerivedName(h)
            IN  /\ Cardinality({i \in DOMAIN entries : entries[i][1] = n}) = 1
                /\ IF n \in DOMAIN params
                   THEN EntryValue(n) = params[n]
                   ELSE EntryValue(n) \in
                          {CommaJoined(req.Header[g]) :
                              g \in {x \in DOMAIN req.Header : DerivedName(x) = n}}

\* a request with a header of two values, whose derived name the static
\* mapping leaves alone, was encoded
C12_Witness ==
    /\ Encoded
    /\ \E h \in DOMAIN req.Header :
         /\ Len(req.Header[h]) = 2
         /\ DerivedName(h) \notin DOMAIN params
         /\ EntryValue(DerivedName(h)) = req.Header[h][1] \o <<44, 32>> \o req.Header[h][2]

C17_DialTarget ==
    pc # "dial" =>
        /\ Len(dialed) >= 1
        /\ dialed[1] = (IF req.DialInfo.ok
                        THEN <<req.DialInfo.Network, req.DialInfo.Address>>
                        ELSE <<"tcp", req.URLHost>>)

\* a call whose context carries dial info has opened its connection
C17_Witness ==
    req.DialInfo.ok /\ conn = "open" /\ dialed = <<(<<"unix", "/run/uwsgi.sock">>)>>

\* the length the two prefix bytes written in front of s announce
PrefixValue(s) ==
    LET w == writeBlockVar(<<>>, s) IN w[1] + 256 * w[2]

\* C18: for every name and every value of the block, the 16-bit length
\* prefix written in front of it equals the number of bytes written after it.
C18_PrefixIsLength ==
    Encoded =>
        \A i \in DOMAIN entries :
            /\ PrefixValue(entries[i][1]) = ByteLen(entries[i][1])
            /\ PrefixValue(entries[i][2]) = ByteLen(entries[i][2])

\* the (name, value) pairs of the block of this call
BlockPairs == {<<entries[i][1], entries[i][2]>> : i \in DOMAIN entries}

\* the (name, value) pairs of the map v
MapPairs(v) == {<<n, v[n]>> : n \in DOMAIN v}

\* C19: the pairs of the block are the same for every order in which the
\* request headers can be visited.
C19_PairsOrderIndependent ==
    Encoded =>
        \A o \in Orders(DOMAIN req.Header) :
            BlockPairs = MapPairs(BlockVars(req, params, o))

\* C20: every standard variable the static mapping does not define carries
\* the value derived from the request, whatever the header mapping holds.
C20_HeadersKeepStandardVars ==
    Encoded =>
        \A n \in StdNames \ DOMAIN params : EntryValue(n) = BaseVars(req)[n]

\* C15: once the caller has read the Body of the returned response to its
\* end or has closed it, the connection of the call is closed.
C15_ConnClosedAfterBody ==
    respBody \in {"consumed", "closed"} => conn = "closed"

\* the texts of the tokens on line n of the dispenser's input
TextsOnLine(n) ==
    LET on == SelectSeq(d.tokens, LAMBDA tok : tok.Line = n)
    IN  [i \in 1..Len(on) |-> on[i].Text]

\* the lines between the braces of the block, in order
BlockLines ==
    IF Len(d.tokens) < 2 THEN <<>>
    ELSE [n \in 1..(d.tokens[Len(d.tokens)].Line - 2) |-> TextsOnLine(n + 1)]

\* what reading the subdirectives of one line gives, from the mapping m: a
\* subdirective starts at the beginning of the line or after the value of
\* the uwsgi_param before it
RECURSIVE ExpectLine(_, _)
ExpectLine(toks, m) ==
    IF toks = <<>> THEN [err |-> "nil", name |-> "", map |-> m]
    ELSE IF toks[1] # "uwsgi_param"
    THEN [err |-> "unknown subdirective", name |-> toks[1], map |-> m]
    ELSE IF Len(toks) < 3 THEN [err |-> "ArgErr", name |-> "", map |-> m]
    ELSE ExpectLine(SubSeq(toks, 4, Len(toks)),
                    [x \in DOMAIN m \cup {toks[2]} |->
                        IF x = toks[2] THEN toks[3] ELSE m[x]])

RECURSIVE ExpectLines(_, _)
ExpectLines(lines, m) ==
    IF lines = <<>> THEN [err |-> "nil", name |-> "", map |-> m]
    ELSE LET r == ExpectLine(lines[1], m)
         IN  IF r.err # "nil" THEN r ELSE ExpectLines(Tail(lines), r.map)

\* C16: UnmarshalCaddyfile returns the error of the first subdirective, in
\* reading order, that is not named uwsgi_param (the error names it) or that
\* is a uwsgi_param without its key or its value; it returns nil only when
\* there is none, and then the mapping holds for each key the value of its
\* last occurrence.
C16_UnmarshalCaddyfile ==
    cfg.pc = "done" =>
        LET e == ExpectLines(BlockLines, NoParams)
        IN  /\ cfg.ret.err = e.err
            /\ e.err = "unknown subdirective" => cfg.ret.name = e.name
            /\ e.err = "nil" => params = e.map

\* the block set K1 twice, to V1 and then to V2, and was loaded
C16_Witness ==
    /\ cfg.pc = "done"
    /\ cfg.ret.err = "nil"
    /\ BlockLines = << <<"uwsgi_param", "K1", "V1">>, <<"uwsgi_param", "K1", "V2">> >>
    /\ params = ("K1" :> "V2")

\* the pairs a call with request r may emit, given the static mapping
PossiblePairs(r) ==
    {MapPairs(BlockVars(r, params, o)) : o \in Orders(DOMAIN r.Header)}

\* every connection was written to and read from by the call that dialed it
\* only, and each call holds a connection it dialed itself
OwnConnOnly ==
    /\ \A i \in DOMAIN conns :
         /\ conns[i].writtenBy \subseteq {conns[i].dialedBy}
         /\ conns[i].readBy \subseteq {conns[i].dialedBy}
    /\ fd # 0 => conns[fd].dialedBy = self
    /\ (parked # NoCall /\ parked.fd # 0) =>
         /\ conns[parked.fd].dialedBy = 3 - self
         /\ parked.fd # fd

\* the block of each call is one its own request and the static mapping give
OwnBlockOnly ==
    /\ Encoded => BlockPairs \in PossiblePairs(req)
    /\ (parked # NoCall /\ parked.entries # <<>>) =>
         {<<parked.entries[i][1], parked.entries[i][2]>> : i \in DOMAIN parked.entries}
            \in PossiblePairs(parked.req)

\* C14: under every interleaving of two RoundTrip calls on one Transport, no
\* step changes the static parameter mapping, every connection is written
\* to and read from by the call that dialed it only, and the block of each
\* call is one that its own request and the static mapping give.
C14_CallsIsolated ==
    /\ [][params' = params]_vars
    /\ [](OwnConnOnly /\ OwnBlockOnly)

\* both calls have written their blocks, each to its own connection, and the
\* two blocks differ
C14_Witness ==
    /\ parked # NoCall
    /\ Len(conns) = 2
    /\ conns[1].writtenBy = {conns[1].dialedBy}
    /\ conns[2].writtenBy = {conns[2].dialedBy}
    /\ Encoded /\ parked.entries # <<>> /\ parked.entries # entries
    /\ pc = "done" /\ parked.pc = "done"

====
